---- MODULE Spec2Model ----
(***************************************************************************)
(* The agent orchestration engine of the e-commerce support agent: the     *)
(* graph of nodes that turns a chat message into a response or a pending   *)
(* approval, the approval gate and the action executor, as driven by the   *)
(* frontend's two requests (POST /chat, POST /approvals/{id}), and the      *)
(* chat screen of the frontend (useChat, useApproval, ChatContainer) and    *)
(* its conversation session (useConversation, ConversationSidebar).        *)
(*                                                                         *)
(* The node bodies and the routing functions follow the request flow       *)
(* analysis of the backend (src/unnamed/part_008); the approval gate, the  *)
(* executor and the trigger handling follow the design document.           *)
(***************************************************************************)
EXTENDS Integers, Sequences, FiniteSets, TLC

(* ------------------------------ bounds --------------------------------- *)
MaxTurns == 2          \* chat messages sent, over all conversations
MaxApprovals == 2      \* approval requests ever created
MaxResolveCalls == 2   \* approval submissions ever sent
MaxReplays == 1        \* interrupted executions that are replayed
MaxIterationsCfg == 2  \* largest configured max_iterations
MaxSends == 2          \* chat requests sent by the chat screen
MaxSubmits == 2        \* approval submissions sent by the chat screen
MaxGenerated == 3      \* conversation ids generated in the browser
MaxTextLen == 4        \* pieces of a response text
MaxDeletes == 2        \* conversations deleted from the sidebar

Convs == {"c1"}

(* ------------------------------ values --------------------------------- *)
NULL == "null"
FallbackAnswer == "I apologize, but I couldn't generate a response."
RejectionNotice == "The requested action was rejected."
ExecutedNotice == "The requested action was executed."
FailedNotice == "The requested action could not be executed."

ActionType == {"CANCEL_ORDER", "REFUND_ORDER", "NONE"}
WriteActions == {"CANCEL_ORDER", "REFUND_ORDER"}
NextStep == {"NONE", "FETCH_ORDER", "FETCH_POLICY", "DONE"}
ApprovalStatus == {"PENDING", "APPROVED", "REJECTED"}
Decisions == {"APPROVED", "REJECTED"}

\* An order identifier is a sequence of symbols; the prefix "ORD-" is one symbol.
NoOrderId == << >>
Ord1 == <<"ORD-", "1">>
StoredOrders == {Ord1}
NoOrder == [order_id |-> NoOrderId, status |-> "ABSENT"]
NoPolicy == "no-policy"

\* A chat message: its words, and whether it also asks a policy question.
Messages ==
  { [words |-> << <<"hello">> >>, policy |-> FALSE],
    [words |-> << <<"cancel">>, Ord1 >>, policy |-> TRUE],
    [words |-> << <<"order">>, <<"#", "1", "?">> >>, policy |-> FALSE] }
NoMessage == [words |-> << >>, policy |-> FALSE]

NoDecision == [final_answer |-> NULL, action |-> "NONE", order_id |-> NoOrderId,
               next_step |-> "NONE"]
NoResult == [approval_id |-> 0, outcome |-> "ABSENT"]
NoReply == [response |-> NULL, requires_approval |-> FALSE, approval_id |-> 0]
NoTrigger == [kind |-> "NONE", approval_id |-> 0]

\* An approval id the gate never hands out.
UnknownApprovalId == MaxApprovals + 1

(* ------------------------- values of the chat screen ------------------- *)
\* Texts are sequences of these pieces: the letters of "order" and of
\* "refund" in any case, another letter, digit or hyphen, whitespace, "#",
\* and another character.
Alnum == {"order", "refund", "A"}
Pieces == Alnum \cup {" ", "#", "?"}
NoText == << >>
\* orderId 'Unknown'
Unknown == <<"Unknown">>

\* pendingApproval = null
NoPending == [approvalId |-> NULL, orderId |-> NoText, action |-> NULL,
              message |-> NoText]
\* mutation.data = undefined
NoData == [id |-> 0, status |-> NULL, message |-> NULL]
NoChatData == [response |-> NoText, requires_approval |-> FALSE,
               approval_id |-> NULL]
NoVariables == [approvalId |-> NULL, status |-> NULL]

\* The bodies POST /chat may answer with.
ChatResponses ==
  { [response |-> <<"order", " ", "#", "A">>, requires_approval |-> TRUE,
     approval_id |-> "a1"],
    [response |-> <<"refund", " ", "order", "?">>, requires_approval |-> TRUE,
     approval_id |-> "a2"],
    [response |-> <<"order", " ", "#", "A">>, requires_approval |-> TRUE,
     approval_id |-> NULL],
    [response |-> <<"refund", " ", "order", "?">>, requires_approval |-> FALSE,
     approval_id |-> "a1"],
    [response |-> <<"order", " ", "#", "A">>, requires_approval |-> FALSE,
     approval_id |-> NULL] }

\* The texts of up to MaxTextLen pieces.
Texts == UNION {[1..n -> Pieces] : n \in 0..MaxTextLen}

\* The bodies POST /chat may answer with when the backend asks for approval,
\* with any text.
ApprovalResponses ==
  [response : Texts, requires_approval : {TRUE}, approval_id : {"a1"}]

\* What the user may have in the input field.
Drafts == {"", " ", "hi"}

\* historyData = undefined
NoHistoryData == << [role |-> NULL, content |-> NULL] >>

\* The bodies GET /conversations/{id}/history may answer with.
Histories ==
  { << >>,
    << [role |-> "user", content |-> "hi"],
       [role |-> "assistant", content |-> "text"] >>,
    << [role |-> "User", content |-> "hi"],
       [role |-> "system", content |-> ""],
       [role |-> "tool", content |-> "text"] >> }

\* The message list is cut off at this length.
MaxMessages == MaxSends + MaxSubmits + 4

\* Conversation ids are numbers: 1, 2, ... are the ids generated in this
\* browser, the others are conversations that the backend lists besides.
NoId == 0
ListedIds == {101, 102}

ErrorMessage ==
  [role |-> "assistant",
   content |-> "Sorry, I encountered an error. Please try again."]

VARIABLES
  state,           \* ConversationState store: conversation id -> state record
  approvals,       \* ApprovalRequest store, indexed by approval_id
  calls,           \* the approval submissions handled so far, with their results
  executions,      \* the executor's record: approval_id -> ExecutionResult
  mutations,       \* every run of the cancel/refund mutation
  orders,          \* the order store: order id -> status
  max_iterations,  \* the configured loop bound
  turns,           \* chat messages sent so far
  replays,         \* interrupted executions so far
  passes,          \* runs of REASON in the current turn, per conversation
  messages,        \* useChat: the message list shown
  pendingApproval, \* useChat: the approval the modal shows, or NoPending
  chatMutation,    \* useChat: state of the send mutation
  historyFetching, \* useChat: a fetch of the conversation history is in flight
  approvalMutation,\* useApproval: state of the submit mutation
  effectDeps,      \* ChatContainer: approvalResponse at the last run of its effect
  submissions,     \* the approval submissions sent, with their outcomes
  appended,        \* the submissions whose response was appended as a message
  sends,           \* chat requests sent so far
  draft,           \* ChatInput: the text in the input field
  rendered,        \* what the last render read from the mutations and the query
  chatRequests,    \* the chat requests sent, with their outcomes
  historyData,     \* useChat: the data of the history query
  offered,         \* the approval ids of the chat responses that required approval
  localStorage,    \* the id stored under CONVERSATION_ID_KEY, or NoId
  conversationId,  \* useConversation: the hook's state, NoId for null
  mounted,         \* the page is loaded and the hook's mount effect has run
  generated,       \* conversation ids generated so far
  lastCall,        \* the last call of a function of utils/conversationId
  conversationList,\* ConversationSidebar: the list fetched last
  deleting,        \* the conversation whose delete is in flight, or NoId
  deletes,         \* deletes requested so far
  deleted          \* the conversations whose delete has succeeded, in order

backend == <<state, approvals, calls, executions, mutations, orders,
             max_iterations, turns, replays, passes>>

screen == <<messages, pendingApproval, chatMutation, historyFetching,
            approvalMutation, effectDeps, submissions, appended, sends,
            draft, rendered, chatRequests, historyData, offered>>

session == <<localStorage, conversationId, mounted, generated, lastCall,
             conversationList, deleting, deletes, deleted>>

vars == <<backend, screen, session>>

(* -------------------------- pure functions ----------------------------- *)
RECURSIVE RemoveHash(_)
\* word.replace("#", "")
RemoveHash(w) ==
  IF w = << >> THEN << >>
  ELSE IF Head(w) = "#" THEN RemoveHash(Tail(w))
       ELSE <<Head(w)>> \o RemoveHash(Tail(w))

RECURSIVE ExtractOrderId(_)
\* the first word that starts with "ORD-" or "#", with every "#" removed
ExtractOrderId(words) ==
  IF words = << >> THEN NoOrderId
  ELSE LET w == Head(words) IN
       IF w # << >> /\ Head(w) \in {"ORD-", "#"} THEN RemoveHash(w)
       ELSE ExtractOrderId(Tail(words))

\* The conversation state of a conversation no message was sent to yet.
InitialState ==
  [node |-> "START", user_message |-> NoMessage, order_id |-> NoOrderId,
   order_data |-> NoOrder, policy_context |-> NoPolicy,
   agent_decision |-> NoDecision, requested_action |-> "NONE",
   next_step |-> "NONE", iteration_count |-> 0, pending_approval_id |-> 0,
   final_response |-> NULL, execution_result |-> NoResult,
   trigger |-> NoTrigger, reply |-> NoReply]

\* The exclusive section as it would be if every request entered at once.
Quiescent_unlocked(s) == TRUE

\* No advance is in progress for the conversation: its turn has ended, is
\* paused, or never started.
Quiescent(s) == s.node \in {"START", "AWAIT_APPROVAL", "END"}

Init ==
  /\ state = [c \in Convs |-> InitialState]
  /\ approvals = << >>
  /\ calls = << >>
  /\ executions = [a \in {} |-> NoResult]
  /\ mutations = << >>
  /\ orders = [o \in StoredOrders |-> "PLACED"]
  /\ max_iterations \in 1..MaxIterationsCfg
  /\ turns = 0
  /\ replays = 0
  /\ passes = [c \in Convs |-> 0]
  /\ messages = << >>
  /\ pendingApproval = NoPending
  /\ chatMutation = [status |-> "idle", data |-> NoChatData]
  /\ historyFetching = TRUE
  /\ approvalMutation = [status |-> "idle", data |-> NoData,
                         variables |-> NoVariables]
  /\ effectDeps = NoData
  /\ submissions = << >>
  /\ appended = << >>
  /\ sends = 0
  /\ draft = ""
  /\ rendered = [isPending |-> FALSE, isLoadingHistory |-> TRUE,
                 isApproving |-> FALSE, approvalResponse |-> NoData]
  /\ chatRequests = << >>
  /\ historyData = NoHistoryData
  /\ offered = {}
  /\ localStorage = NoId
  /\ conversationId = NoId
  /\ mounted = FALSE
  /\ generated = 0
  /\ lastCall = [op |-> "none", id |-> NoId]
  /\ conversationList = {}
  /\ deleting = NoId
  /\ deletes = 0
  /\ deleted = << >>

\* The frontend when the page is opened; the loop bound of the backend does
\* not matter to it.
FrontendInit == Init /\ max_iterations = 1

(* ----------------------------- the graph ------------------------------- *)
\* The trigger as it would be if it kept whatever an earlier turn had fetched.
NewMessage_keeps_data(c, m) ==
  LET s == state[c]
  IN /\ Quiescent(s)
     /\ turns < MaxTurns
     /\ turns' = turns + 1
     /\ state' = [state EXCEPT ![c] =
          [s EXCEPT !.node = "CLASSIFY_INTENT",
                    !.user_message = m,
                    !.iteration_count = 0,
                    !.trigger = [kind |-> "NewMessage", approval_id |-> 0]]]
     /\ UNCHANGED <<approvals, calls, executions, mutations, orders,
                    max_iterations, replays>>
     /\ passes' = [passes EXCEPT ![c] = 0]
     /\ UNCHANGED <<screen, session>>

\* advance(state, NewMessage(text))
NewMessage(c, m) ==
  LET s == state[c]
      same == /\ s.order_data # NoOrder
              /\ ExtractOrderId(m.words) = s.order_data.order_id
  IN /\ Quiescent(s)
     /\ turns < MaxTurns
     /\ turns' = turns + 1
     /\ state' = [state EXCEPT ![c] =
          [s EXCEPT !.node = "CLASSIFY_INTENT",
                    !.user_message = m,
                    !.iteration_count = 0,
                    !.order_data = IF same THEN @ ELSE NoOrder,
                    !.policy_context = IF same THEN @ ELSE NoPolicy,
                    !.trigger = [kind |-> "NewMessage", approval_id |-> 0]]]
     /\ UNCHANGED <<approvals, calls, executions, mutations, orders,
                    max_iterations, replays>>
     /\ passes' = [passes EXCEPT ![c] = 0]
     /\ UNCHANGED <<screen, session>>

\* Whether the message names an order at all: a word that starts with "ORD-"
\* or "#", or a bare number.
ReferencesOrder(m) ==
  \E i \in 1..Len(m.words) :
     LET w == m.words[i] IN w # << >> /\ Head(w) \in {"ORD-", "#", "1"}

\* CLASSIFY_INTENT
classify_intent(c) ==
  LET s == state[c]
      fetch == ReferencesOrder(s.user_message) /\ s.order_data = NoOrder
  IN /\ s.node = "CLASSIFY_INTENT"
     /\ state' = [state EXCEPT ![c] =
          [s EXCEPT !.iteration_count = @ + 1,
                    !.next_step = IF fetch THEN "FETCH_ORDER" ELSE "NONE",
                    !.node = IF fetch THEN "FETCH_ORDER" ELSE "REASON"]]
     /\ UNCHANGED <<approvals, calls, executions, mutations, orders,
                    max_iterations, turns, replays, passes>>
     /\ UNCHANGED <<screen, session>>

\* The edge as it would be if a lookup without result ended the turn.
should_fetch_policy_aborts(s) ==
  IF s.order_data = NoOrder THEN "END"
  ELSE IF s.user_message.policy THEN "FETCH_POLICY" ELSE "REASON"

\* Conditional edge after FETCH_ORDER.
should_fetch_policy(s) ==
  IF s.user_message.policy THEN "FETCH_POLICY" ELSE "REASON"

\* FETCH_ORDER: available says whether the lookup capability answered.
fetch_order_data(c, available) ==
  LET s == state[c]
      id == ExtractOrderId(s.user_message.words)
      found == available /\ id \in DOMAIN orders
      s1 == [s EXCEPT !.order_id = id,
                      !.order_data = IF found
                                     THEN [order_id |-> id, status |-> orders[id]]
                                     ELSE NoOrder,
                      !.next_step = "NONE"]
  IN /\ s.node = "FETCH_ORDER"
     /\ state' = [state EXCEPT ![c] = [s1 EXCEPT !.node = should_fetch_policy(s1)]]
     /\ UNCHANGED <<approvals, calls, executions, mutations, orders,
                    max_iterations, turns, replays, passes>>
     /\ UNCHANGED <<screen, session>>

\* FETCH_POLICY: snippets is what the retrieval returned (NoPolicy when it
\* failed or found nothing).
retrieve_policy(c, snippets) ==
  LET s == state[c]
  IN /\ s.node = "FETCH_POLICY"
     /\ state' = [state EXCEPT ![c] =
          [s EXCEPT !.policy_context = snippets, !.node = "REASON"]]
     /\ UNCHANGED <<approvals, calls, executions, mutations, orders,
                    max_iterations, turns, replays, passes>>
     /\ UNCHANGED <<screen, session>>

\* The reasoning client replaces a null final_answer by the fallback message.
normalize_llm_response_dict(d) ==
  [d EXCEPT !.final_answer = IF @ = NULL THEN FallbackAnswer ELSE @]

\* Write decisions that are on their way to the approval gate.
Proposing ==
  {c \in Convs : state[c].node = "VALIDATE_OUTPUT"
                 /\ state[c].agent_decision.action \in WriteActions
                 /\ state[c].agent_decision.order_id # NoOrderId}

\* REASON: raw is the decision document of the reasoning capability; a failed
\* call is the empty document.
llm_reasoning(c, raw) ==
  LET s == state[c]
      d == normalize_llm_response_dict(raw)
  IN /\ s.node = "REASON"
     /\ (raw.action \in WriteActions /\ raw.order_id # NoOrderId)
          => Len(approvals) + Cardinality(Proposing) < MaxApprovals
     /\ state' = [state EXCEPT ![c] =
          [s EXCEPT !.agent_decision = d,
                    !.requested_action = d.action,
                    !.next_step = d.next_step,
                    !.node = "VALIDATE_OUTPUT"]]
     /\ passes' = [passes EXCEPT ![c] = @ + 1]
     /\ UNCHANGED <<approvals, calls, executions, mutations, orders,
                    max_iterations, turns, replays>>
     /\ UNCHANGED <<screen, session>>

\* The validator as it would be without the checks of the action.
validate_decision_keeps_action(d) ==
  [d EXCEPT !.final_answer = IF @ \in {NULL, ""} THEN FallbackAnswer ELSE @]

\* The validator as it would be without the check of the answer.
validate_decision_keeps_answer(d) ==
  LET a1 == IF d.action \in ActionType THEN d.action ELSE "NONE"
      a2 == IF a1 # "NONE" /\ d.order_id = NoOrderId THEN "NONE" ELSE a1
  IN [d EXCEPT !.action = a2]

\* Output Validator: a usable answer, a known action, an order for the action.
validate_decision(d) ==
  LET a1 == IF d.action \in ActionType THEN d.action ELSE "NONE"
      a2 == IF a1 # "NONE" /\ d.order_id = NoOrderId THEN "NONE" ELSE a1
  IN [d EXCEPT !.final_answer = IF @ \in {NULL, ""} THEN FallbackAnswer ELSE @,
               !.action = a2]

\* The loop rule of the graph module: the fetch node that the decision asks
\* for, while the bound allows it and the data is missing.
should_loop(s) ==
  IF s.iteration_count < max_iterations /\ s.next_step = "FETCH_ORDER"
     /\ s.order_data = NoOrder
  THEN "FETCH_ORDER"
  ELSE IF s.iteration_count < max_iterations /\ s.next_step = "FETCH_POLICY"
          /\ s.policy_context = NoPolicy
       THEN "FETCH_POLICY"
       ELSE "FORMAT_RESPONSE"

\* The edge as it would be if it sent every request for order data back to
\* the fetch node, whatever the iteration count.
should_require_approval_loops(s) ==
  IF s.next_step = "FETCH_ORDER" THEN "FETCH_ORDER"
  ELSE IF s.requested_action # "NONE" THEN "AWAIT_APPROVAL" ELSE "FORMAT_RESPONSE"

\* The edge as it would be if it never paused for an approval.
should_require_approval_never(s) == "FORMAT_RESPONSE"

\* The edge as it would be if a write action went straight to the executor.
should_require_approval_skips_gate(s) ==
  IF s.requested_action # "NONE" THEN "EXECUTE_ACTION" ELSE "FORMAT_RESPONSE"

\* Conditional edge after the guardrails: it looks at the action only.
should_require_approval(s) ==
  IF s.requested_action # "NONE" THEN "AWAIT_APPROVAL" ELSE "FORMAT_RESPONSE"

\* Approval Gate create(): a PENDING request under the next unused id.
create(c, action, order_id, message) ==
  [approval_id |-> Len(approvals) + 1, conversation_id |-> c, action |-> action,
   order_id |-> order_id, proposed_message |-> message, status |-> "PENDING"]

\* VALIDATE_OUTPUT and the edge after it.
output_guardrails(c) ==
  LET s == state[c]
      d == validate_decision(s.agent_decision)
      s1 == [s EXCEPT !.agent_decision = d, !.requested_action = d.action]
      to == should_require_approval(s1)
      req == create(c, d.action, d.order_id, d.final_answer)
  IN /\ s.node = "VALIDATE_OUTPUT"
     /\ IF to = "AWAIT_APPROVAL"
        THEN /\ approvals' = Append(approvals, req)
             /\ state' = [state EXCEPT ![c] =
                  [s1 EXCEPT !.node = "AWAIT_APPROVAL",
                             !.pending_approval_id = req.approval_id,
                             !.reply = [response |-> d.final_answer,
                                        requires_approval |-> TRUE,
                                        approval_id |-> req.approval_id]]]
        ELSE /\ approvals' = approvals
             /\ state' = [state EXCEPT ![c] = [s1 EXCEPT !.node = to]]
     /\ UNCHANGED <<calls, executions, mutations, orders, max_iterations,
                    turns, replays, passes>>
     /\ UNCHANGED <<screen, session>>

\* The text as it would be if every approved action were reported as done.
compose_response_ignores_outcome(s) ==
  IF s.trigger.kind = "APPROVED" THEN ExecutedNotice
  ELSE IF s.trigger.kind = "REJECTED" THEN s.final_response
       ELSE s.agent_decision.final_answer

\* The text of the turn: the outcome of the execution, the rejection notice,
\* or the answer of the decision.
compose_response(s) ==
  IF s.trigger.kind = "APPROVED"
  THEN IF s.execution_result.outcome = "SUCCESS" THEN ExecutedNotice ELSE FailedNotice
  ELSE IF s.trigger.kind = "REJECTED" THEN s.final_response
       ELSE s.agent_decision.final_answer

\* FORMAT_RESPONSE: the turn ends.
format_final_response(c) ==
  LET s == state[c]
      text == compose_response(s)
  IN /\ s.node = "FORMAT_RESPONSE"
     /\ state' = [state EXCEPT ![c] =
          [s EXCEPT !.final_response = text,
                    !.node = "END",
                    !.trigger = NoTrigger,
                    !.reply = [response |-> text, requires_approval |-> FALSE,
                               approval_id |-> 0]]]
     /\ UNCHANGED <<approvals, calls, executions, mutations, orders,
                    max_iterations, turns, replays, passes>>
     /\ UNCHANGED <<screen, session>>

Doc(answer, action, order_id, next_step) ==
  [final_answer |-> answer, action |-> action, order_id |-> order_id,
   next_step |-> next_step]

\* The decision documents tried: every kind of answer, action, order id and
\* next step occurs, alone and together with a write action.
LlmDocuments ==
  { Doc("answer", "NONE", NoOrderId, "NONE"),
    Doc(NULL, "NONE", Ord1, "FETCH_ORDER"),
    Doc("", "NONE", NoOrderId, "FETCH_POLICY"),
    Doc("answer", "CANCEL_ORDER", Ord1, "NONE"),
    Doc(NULL, "REFUND_ORDER", Ord1, "DONE"),
    Doc("answer", "CANCEL_ORDER", NoOrderId, "NONE"),
    Doc("answer", "BOGUS", Ord1, "NONE") }

\* Approval Gate get()
get(approval_id) ==
  IF approval_id \in 1..Len(approvals) THEN approvals[approval_id] ELSE "NotFound"

\* The gate as it would be without the check of the status.
gate_result_unchecked(approval_id) ==
  IF approval_id \notin 1..Len(approvals) THEN "NotFound" ELSE "OK"

\* Approval Gate resolve(): the outcome of the gate for this request.
gate_result(approval_id) ==
  IF approval_id \notin 1..Len(approvals) THEN "NotFound"
  ELSE IF approvals[approval_id].status # "PENDING" THEN "AlreadyResolved"
       ELSE "OK"

\* The ApprovalResolved trigger is valid only while the conversation awaits
\* exactly this approval.
trigger_valid(s, approval_id) ==
  s.node = "AWAIT_APPROVAL" /\ s.pending_approval_id = approval_id

\* The trigger as it would be if it resumed into the executor whatever the
\* decision.
ApprovalResolved_ignores_decision(s, approval_id, decision) ==
  [s EXCEPT !.node = "EXECUTE_ACTION",
            !.pending_approval_id = 0,
            !.trigger = [kind |-> "APPROVED", approval_id |-> approval_id]]

\* advance(state, ApprovalResolved(approval_id, decision))
ApprovalResolved(s, approval_id, decision) ==
  IF decision = "APPROVED"
  THEN [s EXCEPT !.node = "EXECUTE_ACTION",
                 !.pending_approval_id = 0,
                 !.trigger = [kind |-> "APPROVED", approval_id |-> approval_id]]
  ELSE [s EXCEPT !.node = "FORMAT_RESPONSE",
                 !.pending_approval_id = 0,
                 !.requested_action = "NONE",
                 !.final_response = RejectionNotice,
                 !.trigger = [kind |-> "REJECTED", approval_id |-> approval_id]]

\* POST /approvals/{approval_id}: the gate decides, and a successful
\* resolution resumes the owning conversation.
resolve(approval_id, decision) ==
  LET g == gate_result(approval_id)
      c == approvals[approval_id].conversation_id
      ok == g = "OK" /\ trigger_valid(state[c], approval_id)
  IN /\ Len(calls) < MaxResolveCalls
     /\ g # "NotFound" => Quiescent(state[c])
     /\ calls' = Append(calls, [approval_id |-> approval_id, decision |-> decision,
                                result |-> g, resumed |-> ok])
     /\ approvals' = IF g = "OK"
                     THEN [approvals EXCEPT ![approval_id].status = decision]
                     ELSE approvals
     /\ state' = IF ok
                 THEN [state EXCEPT ![c] = ApprovalResolved(@, approval_id, decision)]
                 ELSE state
     /\ UNCHANGED <<executions, mutations, orders, max_iterations, turns, replays, passes>>
     /\ UNCHANGED <<screen, session>>

\* The new status of the order under a write action.
apply_action(action) ==
  IF action = "CANCEL_ORDER" THEN "CANCELLED" ELSE "REFUNDED"

\* The executor as it would be without its record of completed approvals.
execute_unrecorded(approval_id, action, order_id, succeeds) ==
  LET done == succeeds /\ order_id \in DOMAIN orders
  IN /\ mutations' = Append(mutations, [approval_id |-> approval_id,
                                         action |-> action,
                                         order_id |-> order_id])
     /\ orders' = IF done
                  THEN [orders EXCEPT ![order_id] = apply_action(action)]
                  ELSE orders
     /\ executions' = [a \in DOMAIN executions \cup {approval_id} |->
          IF a = approval_id
          THEN [approval_id |-> approval_id,
                outcome |-> IF done THEN "SUCCESS" ELSE "ExecutionFailed"]
          ELSE executions[a]]

\* Action Executor execute(approval_id, action, order_id): the recorded result
\* for a completed approval, else one run of the mutation, whose result is
\* recorded. succeeds says whether the mutation went through.
execute(approval_id, action, order_id, succeeds) ==
  IF approval_id \in DOMAIN executions
  THEN /\ UNCHANGED <<executions, mutations, orders>>
  ELSE LET done == succeeds /\ order_id \in DOMAIN orders
       IN /\ mutations' = Append(mutations, [approval_id |-> approval_id,
                                              action |-> action,
                                              order_id |-> order_id])
          /\ orders' = IF done
                       THEN [orders EXCEPT ![order_id] = apply_action(action)]
                       ELSE orders
          /\ executions' = executions @@
               (approval_id :> [approval_id |-> approval_id,
                                outcome |-> IF done THEN "SUCCESS"
                                                    ELSE "ExecutionFailed"])

\* EXECUTE_ACTION
execute_action(c, succeeds) ==
  LET s == state[c]
      a == s.trigger.approval_id
  IN /\ s.node = "EXECUTE_ACTION"
     /\ a \in DOMAIN executions => succeeds
     /\ execute(a, s.requested_action, s.agent_decision.order_id, succeeds)
     /\ state' = [state EXCEPT ![c] =
          [s EXCEPT !.execution_result = executions'[a],
                    !.requested_action = "NONE",
                    !.node = "FORMAT_RESPONSE"]]
     /\ UNCHANGED <<approvals, calls, max_iterations, turns, replays, passes>>
     /\ UNCHANGED <<screen, session>>

\* EXECUTE_ACTION that is cut off after the executor returned and before the
\* conversation state was stored: the step is replayed later.
execute_action_interrupted(c, succeeds) ==
  LET s == state[c]
      a == s.trigger.approval_id
  IN /\ s.node = "EXECUTE_ACTION"
     /\ replays < MaxReplays
     /\ a \in DOMAIN executions => succeeds
     /\ execute(a, s.requested_action, s.agent_decision.order_id, succeeds)
     /\ replays' = replays + 1
     /\ UNCHANGED <<state, approvals, calls, max_iterations, turns, passes>>
     /\ UNCHANGED <<screen, session>>

Next ==
  \/ \E c \in Convs, m \in Messages : NewMessage(c, m)
  \/ \E c \in Convs : classify_intent(c)
  \/ \E c \in Convs, available \in BOOLEAN : fetch_order_data(c, available)
  \/ \E c \in Convs, snippets \in {NoPolicy, "policy"} : retrieve_policy(c, snippets)
  \/ \E c \in Convs, raw \in LlmDocuments \cup {NoDecision} : llm_reasoning(c, raw)
  \/ \E c \in Convs : output_guardrails(c)
  \/ \E c \in Convs : format_final_response(c)
  \/ \E a \in 1..Len(approvals), d \in Decisions : resolve(a, d)
  \/ resolve(UnknownApprovalId, "APPROVED")
  \/ \E c \in Convs, succeeds \in BOOLEAN : execute_action(c, succeeds)
  \/ \E c \in Convs, succeeds \in BOOLEAN : execute_action_interrupted(c, succeeds)

Spec == Init /\ [][Next]_vars

\* One node of the graph runs for the conversation.
Step(c) ==
  \/ classify_intent(c)
  \/ \E available \in BOOLEAN : fetch_order_data(c, available)
  \/ \E snippets \in {NoPolicy, "policy"} : retrieve_policy(c, snippets)
  \/ \E raw \in LlmDocuments \cup {NoDecision} : llm_reasoning(c, raw)
  \/ output_guardrails(c)
  \/ format_final_response(c)
  \/ \E succeeds \in BOOLEAN : execute_action(c, succeeds)

\* An advance that has started runs node after node until it ends or pauses.
FairSpec == Spec /\ \A c \in Convs : WF_vars(Step(c))

(* --------------------------- the chat screen --------------------------- *)
\* JavaScript truthiness of a string or null.
Truthy(x) == x \notin {NULL, ""}

\* String.prototype.trim on the drafts.
trim(text) == IF text = " " THEN "" ELSE text

\* The message list that the history effect builds from the fetched items.
RECURSIVE historyMessages(_)
historyMessages(items) ==
  IF items = << >> THEN << >>
  ELSE LET msg == Head(items)
           normalizedRole == IF msg.role \in {"user", "User", "USER"}
                             THEN "user" ELSE "assistant"
       IN IF Truthy(msg.content)
          THEN <<[role |-> normalizedRole, content |-> msg.content]>>
                 \o historyMessages(Tail(items))
          ELSE historyMessages(Tail(items))

\* The longest prefix of the text that [A-Z0-9-]+ with flag i matches.
RECURSIVE alnumRun(_)
alnumRun(t) ==
  IF t # << >> /\ Head(t) \in Alnum
  THEN <<Head(t)>> \o alnumRun(Tail(t))
  ELSE << >>

\* The text after the whitespace that \s+ matches.
RECURSIVE skipSpaces(_)
skipSpaces(t) ==
  IF t # << >> /\ Head(t) = " " THEN skipSpaces(Tail(t)) ELSE t

\* The group that /order\s+(?:#)?([A-Z0-9-]+)/i captures when it matches at
\* the head of the text, << >> when it does not match there.
matchAt(t) ==
  IF t = << >> \/ Head(t) # "order" THEN << >>
  ELSE IF Tail(t) = << >> \/ Head(Tail(t)) # " " THEN << >>
  ELSE LET r == skipSpaces(Tail(t))
       IN IF r # << >> /\ Head(r) = "#" THEN alnumRun(Tail(r))
          ELSE alnumRun(r)

\* response.response.match(/order\s+(?:#)?([A-Z0-9-]+)/i): group 1 of the
\* leftmost match, << >> when there is none.
RECURSIVE orderIdMatch(_)
orderIdMatch(t) ==
  IF t = << >> THEN << >>
  ELSE IF matchAt(t) # << >> THEN matchAt(t)
  ELSE orderIdMatch(Tail(t))

\* orderIdMatch ? orderIdMatch[1] : 'Unknown'
orderIdOf(text) ==
  IF orderIdMatch(text) # << >> THEN orderIdMatch(text) ELSE Unknown

\* The action as it would be if it were taken from the type's default.
actionOf_none(text) == "NONE"

\* 'CANCEL_ORDER' unless response.response.toLowerCase().includes('refund')
actionOf(text) ==
  IF \E i \in 1..Len(text) : text[i] = "refund"
  THEN "REFUND_ORDER" ELSE "CANCEL_ORDER"

\* onSuccess as it would be if it looked at the approval id alone.
pendingApprovalOf_unguarded(response) ==
  IF Truthy(response.approval_id)
  THEN [approvalId |-> response.approval_id,
        orderId |-> orderIdOf(response.response),
        action |-> actionOf(response.response),
        message |-> response.response]
  ELSE NoPending

\* useChat mutation.onSuccess: the pending approval that a chat response sets.
pendingApprovalOf(response) ==
  IF response.requires_approval /\ Truthy(response.approval_id)
  THEN [approvalId |-> response.approval_id,
        orderId |-> orderIdOf(response.response),
        action |-> actionOf(response.response),
        message |-> response.response]
  ELSE NoPending

\* ChatContainer: the approval modal is rendered. pendingApproval is React
\* state: the render that follows its change is part of the step.
ModalShown == pendingApproval # NoPending

\* useApproval: isLoading
isApproving == approvalMutation.status = "pending"

\* What a render of ChatContainer reads from the two mutations and the
\* history query.
snapshot ==
  [isPending |-> chatMutation.status = "pending",
   isLoadingHistory |-> historyFetching /\ historyData = NoHistoryData,
   isApproving |-> isApproving,
   approvalResponse |-> approvalMutation.data]

\* The comparison as it would be if the effect had no dependency list.
depsChanged_always(prev, next) == TRUE

\* React runs an effect again when a dependency is another value than at its
\* last run.
depsChanged(prev, next) == prev # next

\* The effect of ChatContainer has not yet run for the approvalResponse
\* rendered last; React runs it before the next render is committed.
effectScheduled == effectDeps # rendered.approvalResponse

\* ChatInput: the user edits the text; the textarea is disabled while
\* isLoading is rendered.
typeMessage(text) ==
  /\ ~(rendered.isPending \/ rendered.isLoadingHistory)
  /\ draft' = text
  /\ UNCHANGED <<messages, pendingApproval, chatMutation, historyFetching,
                 approvalMutation, effectDeps, submissions, appended, sends,
                 rendered, chatRequests, historyData, offered>>
  /\ UNCHANGED <<backend, session>>

\* sendChatMessage: a send is issued unless the message is blank or the
\* mutation of the render that made this callback is pending.
sendChatMessage(message) ==
  /\ sends < MaxSends
  /\ ~(~Truthy(trim(message)) \/ rendered.isPending)
  /\ chatMutation' = [status |-> "pending", data |-> NoChatData]
  /\ chatRequests' = Append(chatRequests,
       [message |-> message, outcome |-> "pending"])
  /\ sends' = sends + 1

\* ChatInput handleSubmit: Enter or the send button.
handleSubmit ==
  /\ ~effectScheduled
  /\ Truthy(trim(draft)) /\ ~(rendered.isPending \/ rendered.isLoadingHistory)
  /\ sendChatMessage(trim(draft))
  /\ draft' = ""
  /\ UNCHANGED <<messages, pendingApproval, historyFetching, approvalMutation,
                 effectDeps, submissions, appended, rendered, historyData, offered>>
  /\ UNCHANGED <<backend, session>>

\* The request with this number is in flight.
chatInFlight(k) ==
  k \in 1..Len(chatRequests) /\ chatRequests[k].outcome = "pending"

\* useChat mutation.onSuccess, for the request with number k; the hook's
\* mutation state follows the request sent last.
onSuccess(k, response) ==
  /\ chatInFlight(k)
  /\ chatRequests' = [chatRequests EXCEPT ![k].outcome = "success"]
  /\ offered' = IF response.requires_approval
                THEN offered \cup {response.approval_id} ELSE offered
  /\ chatMutation' = IF k = Len(chatRequests)
                     THEN [status |-> "success", data |-> response]
                     ELSE chatMutation
  /\ pendingApproval' = pendingApprovalOf(response)
  /\ historyFetching' = TRUE
  /\ UNCHANGED <<messages, approvalMutation, effectDeps, submissions, appended,
                 sends, draft, historyData>>
  /\ UNCHANGED <<backend, session>>
  /\ rendered' = snapshot'

\* onError as it would be if it also dropped the pending approval and asked
\* for the history.
onError_resets(k) ==
  /\ chatInFlight(k)
  /\ chatRequests' = [chatRequests EXCEPT ![k].outcome = "error"]
  /\ chatMutation' = IF k = Len(chatRequests)
                     THEN [status |-> "error", data |-> NoChatData]
                     ELSE chatMutation
  /\ messages' = Append(messages, ErrorMessage)
  /\ pendingApproval' = NoPending
  /\ historyFetching' = TRUE
  /\ UNCHANGED <<approvalMutation, effectDeps, submissions, appended, sends,
                 draft, historyData, offered>>
  /\ UNCHANGED <<backend, session>>
  /\ rendered' = snapshot'

\* useChat mutation.onError, for the request with number k.
onError(k) ==
  /\ chatInFlight(k)
  /\ Len(messages) < MaxMessages
  /\ chatRequests' = [chatRequests EXCEPT ![k].outcome = "error"]
  /\ chatMutation' = IF k = Len(chatRequests)
                     THEN [status |-> "error", data |-> NoChatData]
                     ELSE chatMutation
  /\ messages' = Append(messages, ErrorMessage)
  /\ UNCHANGED <<pendingApproval, historyFetching, approvalMutation, effectDeps,
                 submissions, appended, sends, draft, historyData, offered>>
  /\ UNCHANGED <<backend, session>>
  /\ rendered' = snapshot'

\* The history effect of useChat, which depends on historyData: the query
\* keeps the data it has when the fetched data is equal to it, and the
\* effect runs when historyData is another value.
historyEffect(items) ==
  IF depsChanged(historyData, items) THEN historyMessages(items) ELSE messages

\* A fetch of the history has delivered its items.
loadHistory(items) ==
  /\ historyFetching
  /\ historyFetching' = FALSE
  /\ historyData' = items
  /\ messages' = historyEffect(items)
  /\ UNCHANGED <<pendingApproval, chatMutation, approvalMutation, effectDeps,
                 submissions, appended, sends, draft, chatRequests, offered>>
  /\ UNCHANGED <<backend, session>>
  /\ rendered' = snapshot'

\* The query refetches when the browser is online again.
refetchOnReconnect ==
  /\ historyData # NoHistoryData
  /\ ~historyFetching
  /\ historyFetching' = TRUE
  /\ UNCHANGED <<messages, pendingApproval, chatMutation, approvalMutation,
                 effectDeps, submissions, appended, sends, draft, rendered,
                 chatRequests, historyData, offered>>
  /\ UNCHANGED <<backend, session>>

\* handleApproval as it would be if it did not look at pendingApproval.
handleApproval_unguarded(status) ==
  /\ Len(submissions) < MaxSubmits
  /\ ~effectScheduled
  /\ approvalMutation' =
       [status |-> "pending", data |-> NoData,
        variables |-> [approvalId |-> pendingApproval.approvalId,
                       status |-> status]]
  /\ submissions' = Append(submissions,
       [approvalId |-> pendingApproval.approvalId, status |-> status,
        outcome |-> "pending"])
  /\ UNCHANGED <<messages, pendingApproval, chatMutation, historyFetching,
                 effectDeps, appended, sends, draft, rendered, chatRequests,
                 historyData, offered>>
  /\ UNCHANGED <<backend, session>>

\* ChatContainer handleApproval: a button of the modal was clicked; the
\* buttons are disabled while isLoading is rendered.
handleApproval(status) ==
  /\ Len(submissions) < MaxSubmits
  /\ ModalShown
  /\ ~rendered.isApproving
  /\ ~effectScheduled
  /\ approvalMutation' =
       [status |-> "pending", data |-> NoData,
        variables |-> [approvalId |-> pendingApproval.approvalId,
                       status |-> status]]
  /\ submissions' = Append(submissions,
       [approvalId |-> pendingApproval.approvalId, status |-> status,
        outcome |-> "pending"])
  /\ UNCHANGED <<messages, pendingApproval, chatMutation, historyFetching,
                 effectDeps, appended, sends, draft, rendered, chatRequests,
                 historyData, offered>>
  /\ UNCHANGED <<backend, session>>

\* The submission with this number is in flight.
submissionInFlight(k) ==
  k \in 1..Len(submissions) /\ submissions[k].outcome = "pending"

\* submitApproval as it would be if the client handed the body of an error
\* answer to the caller.
submitApproval_rejected_as_data(k) ==
  /\ submissionInFlight(k)
  /\ approvalMutation' =
       IF k = Len(submissions)
       THEN [approvalMutation EXCEPT
               !.status = "success",
               !.data = [id |-> k, status |-> "error",
                         message |-> "Approval not found"]]
       ELSE approvalMutation
  /\ submissions' = [submissions EXCEPT ![k].outcome = "error"]
  /\ UNCHANGED <<messages, pendingApproval, chatMutation, historyFetching,
                 effectDeps, appended, sends, draft, rendered, chatRequests,
                 historyData, offered>>
  /\ UNCHANGED <<backend, session>>

\* submitApproval failed: the backend answered with a client error, or the
\* request did not get through. The hook's mutation state follows the
\* submission sent last.
submitApproval_rejected(k) ==
  /\ submissionInFlight(k)
  /\ approvalMutation' =
       IF k = Len(submissions)
       THEN [approvalMutation EXCEPT !.status = "error"]
       ELSE approvalMutation
  /\ submissions' = [submissions EXCEPT ![k].outcome = "error"]
  /\ UNCHANGED <<messages, pendingApproval, chatMutation, historyFetching,
                 effectDeps, appended, sends, draft, rendered, chatRequests,
                 historyData, offered>>
  /\ UNCHANGED <<backend, session>>

\* submitApproval returned the ApprovalResponse of the backend.
submitApproval_resolved(k) ==
  /\ submissionInFlight(k)
  /\ approvalMutation' =
       IF k = Len(submissions)
       THEN [approvalMutation EXCEPT
               !.status = "success",
               !.data = [id |-> k, status |-> submissions[k].status,
                         message |-> submissions[k].status]]
       ELSE approvalMutation
  /\ submissions' = [submissions EXCEPT ![k].outcome = "success"]
  /\ UNCHANGED <<messages, pendingApproval, chatMutation, historyFetching,
                 effectDeps, appended, sends, draft, rendered, chatRequests,
                 historyData, offered>>
  /\ UNCHANGED <<backend, session>>

\* The mutations have notified the component and it has rendered again.
render ==
  /\ ~effectScheduled
  /\ rendered # snapshot
  /\ rendered' = snapshot
  /\ UNCHANGED <<messages, pendingApproval, chatMutation, historyFetching,
                 approvalMutation, effectDeps, submissions, appended, sends,
                 draft, chatRequests, historyData, offered>>
  /\ UNCHANGED <<backend, session>>

\* useChat addApprovalResponse
addApprovalResponse(message) ==
  Append(messages, [role |-> "assistant", content |-> message])

\* The effect of ChatContainer on approvalResponse.
approvalEffect ==
  LET approvalResponse == rendered.approvalResponse
  IN /\ depsChanged(effectDeps, approvalResponse)
     /\ Len(messages) < MaxMessages
     /\ effectDeps' = approvalResponse
     /\ IF approvalResponse # NoData
        THEN /\ messages' = addApprovalResponse(approvalResponse.message)
             /\ pendingApproval' = NoPending
             /\ appended' = Append(appended, approvalResponse.id)
        ELSE UNCHANGED <<messages, pendingApproval, appended>>
     /\ UNCHANGED <<chatMutation, historyFetching, approvalMutation,
                    submissions, sends, draft, rendered, chatRequests,
                    historyData, offered>>
     /\ UNCHANGED <<backend, session>>

\* ApprovalModal: Escape and the backdrop act, and the close button is
\* there, unless isLoading is rendered.
dismissible == ~rendered.isApproving

\* clearPendingApproval as the modal's onClose: Escape, the backdrop or the
\* close button.
clearPendingApproval ==
  /\ ModalShown
  /\ dismissible
  /\ ~effectScheduled
  /\ pendingApproval' = NoPending
  /\ rendered' = snapshot
  /\ UNCHANGED <<messages, chatMutation, historyFetching, approvalMutation,
                 effectDeps, submissions, appended, sends, draft, chatRequests,
                 historyData, offered>>
  /\ UNCHANGED <<backend, session>>

ScreenNext ==
  \/ \E text \in Drafts : typeMessage(text)
  \/ handleSubmit
  \/ \E k \in 1..MaxSends, response \in ChatResponses : onSuccess(k, response)
  \/ \E k \in 1..MaxSends : onError(k)
  \/ \E items \in Histories : loadHistory(items)
  \/ refetchOnReconnect
  \/ \E status \in Decisions : handleApproval(status)
  \/ \E k \in 1..MaxSubmits : submitApproval_resolved(k)
  \/ \E k \in 1..MaxSubmits : submitApproval_rejected(k)
  \/ render
  \/ approvalEffect
  \/ clearPendingApproval

ScreenSpec == FrontendInit /\ [][ScreenNext]_vars

\* The chat screen when the first request is answered with any text, for
\* the fields that onSuccess derives from the text.
TextNext ==
  \/ loadHistory(<< >>)
  \/ typeMessage("hi")
  \/ handleSubmit
  \/ render
  \/ /\ chatInFlight(1)
     /\ \E response \in ApprovalResponses : onSuccess(1, response)

TextSpec == FrontendInit /\ [][TextNext]_vars

(* ----------------------- the conversation session --------------------- *)
\* generateConversationId: an id that was not generated before.
generateConversationId == generated + 1

\* The function as it would be if it generated an id at every call.
getOrCreateConversationId_fresh ==
  [id |-> generateConversationId, storage |-> generateConversationId,
   created |-> TRUE]

\* getOrCreateConversationId: the id it returns and the storage it leaves.
getOrCreateConversationId ==
  IF localStorage # NoId
  THEN [id |-> localStorage, storage |-> localStorage, created |-> FALSE]
  ELSE [id |-> generateConversationId, storage |-> generateConversationId,
        created |-> TRUE]

\* A call of getOrCreateConversationId.
call_getOrCreateConversationId ==
  LET r == getOrCreateConversationId
  IN /\ r.created => generated < MaxGenerated
     /\ localStorage' = r.storage
     /\ generated' = IF r.created THEN generated + 1 ELSE generated
     /\ lastCall' = [op |-> "get", id |-> r.id]
     /\ UNCHANGED <<conversationId, mounted, conversationList, deleting, deletes, deleted>>
     /\ UNCHANGED <<backend, screen>>

\* A call of clearConversationId.
clearConversationId ==
  /\ localStorage' = NoId
  /\ lastCall' = [op |-> "clear", id |-> NoId]
  /\ UNCHANGED <<conversationId, mounted, generated, conversationList,
                 deleting, deletes, deleted>>
  /\ UNCHANGED <<backend, screen>>

\* A call of setConversationId(id).
setConversationId(id) ==
  /\ localStorage' = id
  /\ lastCall' = [op |-> "set", id |-> id]
  /\ UNCHANGED <<conversationId, mounted, generated, conversationList,
                 deleting, deletes, deleted>>
  /\ UNCHANGED <<backend, screen>>

\* useConversation: the effect that runs when the page has loaded.
useConversation_mount ==
  LET r == getOrCreateConversationId
  IN /\ ~mounted
     /\ r.created => generated < MaxGenerated
     /\ localStorage' = r.storage
     /\ generated' = IF r.created THEN generated + 1 ELSE generated
     /\ conversationId' = r.id
     /\ mounted' = TRUE
     /\ lastCall' = [op |-> "get", id |-> r.id]
     /\ UNCHANGED <<conversationList, deleting, deletes, deleted>>
     /\ UNCHANGED <<backend, screen>>

\* clearConversation as it would be if it did not store the new id.
clearConversation_unsaved ==
  /\ mounted
  /\ generated < MaxGenerated
  /\ localStorage' = NoId
  /\ conversationId' = generateConversationId
  /\ generated' = generated + 1
  /\ lastCall' = [op |-> "clear", id |-> NoId]
  /\ UNCHANGED <<mounted, conversationList, deleting, deletes, deleted>>
  /\ UNCHANGED <<backend, screen>>

\* useConversation clearConversation: the stored id and the hook's id become
\* a new id.
clearConversation ==
  /\ mounted
  /\ generated < MaxGenerated
  /\ localStorage' = generateConversationId
  /\ conversationId' = generateConversationId
  /\ generated' = generated + 1
  /\ lastCall' = [op |-> "set", id |-> generateConversationId]
  /\ UNCHANGED <<mounted, conversationList, deleting, deletes, deleted>>
  /\ UNCHANGED <<backend, screen>>

\* window.location.reload(): the page is loaded anew; the hook starts with
\* null and an in-flight delete has no handler any more.
reload ==
  /\ conversationId' = NoId
  /\ mounted' = FALSE
  /\ conversationList' = {}
  /\ deleting' = NoId

\* useConversation switchConversation(newId)
switchConversation(newId) ==
  /\ mounted
  /\ localStorage' = newId
  /\ lastCall' = [op |-> "set", id |-> newId]
  /\ reload
  /\ UNCHANGED <<generated, deletes, deleted>>
  /\ UNCHANGED <<backend, screen>>

\* useConversation createNewConversation: clearConversation, then a reload.
createNewConversation ==
  /\ mounted
  /\ generated < MaxGenerated
  /\ localStorage' = generateConversationId
  /\ generated' = generated + 1
  /\ lastCall' = [op |-> "set", id |-> generateConversationId]
  /\ reload
  /\ UNCHANGED <<deletes, deleted>>
  /\ UNCHANGED <<backend, screen>>

\* ConversationSidebar: the conversation list query has delivered a list.
conversationListFetched(ids) ==
  /\ mounted
  /\ conversationList' = ids
  /\ UNCHANGED <<localStorage, conversationId, mounted, generated, lastCall,
                 deleting, deletes, deleted>>
  /\ UNCHANGED <<backend, screen>>

\* ConversationSidebar handleDelete: the delete of a listed conversation was
\* confirmed.
handleDelete(id) ==
  /\ mounted
  /\ deletes < MaxDeletes
  /\ deleting = NoId
  /\ id \in conversationList
  /\ deleting' = id
  /\ deletes' = deletes + 1
  /\ UNCHANGED <<localStorage, conversationId, mounted, generated, lastCall,
                 conversationList, deleted>>
  /\ UNCHANGED <<backend, screen>>

\* The test of deleteMutation.onSuccess: the current conversation is in the
\* list.
startsNewConversation ==
  \E c \in conversationList : c = conversationId

\* ConversationSidebar deleteMutation.onSuccess
deleteMutation_onSuccess ==
  /\ mounted
  /\ deleting # NoId
  /\ deleted' = Append(deleted, deleting)
  /\ IF startsNewConversation
     THEN /\ generated < MaxGenerated
          /\ localStorage' = generateConversationId
          /\ generated' = generated + 1
          /\ lastCall' = [op |-> "set", id |-> generateConversationId]
          /\ reload
          /\ UNCHANGED deletes
     ELSE /\ deleting' = NoId
          /\ UNCHANGED <<localStorage, conversationId, mounted, generated,
                         lastCall, conversationList, deletes>>
  /\ UNCHANGED <<backend, screen>>

SessionNext ==
  \/ useConversation_mount
  \/ clearConversation
  \/ \E newId \in conversationList : switchConversation(newId)
  \/ createNewConversation
  \/ \E ids \in SUBSET ((ListedIds \cup {conversationId}) \ {NoId}) :
        conversationListFetched(ids)
  \/ \E id \in conversationList : handleDelete(id)
  \/ deleteMutation_onSuccess

SessionSpec == FrontendInit /\ [][SessionNext]_vars

\* The functions of utils/conversationId called in any order, besides the
\* calls that the hook makes.
StorageNext ==
  \/ call_getOrCreateConversationId
  \/ clearConversationId
  \/ \E id \in ListedIds : setConversationId(id)
  \/ useConversation_mount
  \/ clearConversation
  \/ createNewConversation

StorageSpec == FrontendInit /\ [][StorageNext]_vars

(* ------------------------------ claims --------------------------------- *)
Known(a) == a \in 1..Len(approvals)

MutationsOf(a) == {i \in 1..Len(mutations) : mutations[i].approval_id = a}

CallsOn(a) == {i \in 1..Len(calls) : calls[i].approval_id = a}

\* C1: the conversation is at EXECUTE_ACTION, and the mutation runs, only for
\* a write action whose own ApprovalRequest (same conversation, action and
\* order) has status APPROVED.
C1_ExecuteOnlyAfterApproved ==
  /\ \A c \in Convs :
        state[c].node = "EXECUTE_ACTION" =>
          LET a == state[c].trigger.approval_id IN
            /\ Known(a)
            /\ approvals[a].status = "APPROVED"
            /\ approvals[a].conversation_id = c
            /\ state[c].requested_action \in WriteActions
            /\ approvals[a].action = state[c].requested_action
            /\ approvals[a].order_id = state[c].agent_decision.order_id
  /\ \A i \in 1..Len(mutations) :
        LET m == mutations[i] IN
          /\ Known(m.approval_id)
          /\ approvals[m.approval_id].status = "APPROVED"
          /\ approvals[m.approval_id].action = m.action
          /\ approvals[m.approval_id].order_id = m.order_id
          /\ m.action \in WriteActions

\* C1 witness: an approved write action has been executed.
C1_Witness ==
  \E c \in Convs :
     /\ state[c].node = "FORMAT_RESPONSE"
     /\ state[c].trigger.kind = "APPROVED"
     /\ MutationsOf(state[c].trigger.approval_id) # {}

\* C2: of the resolve calls on one approval_id exactly one, the first, succeeds
\* and sets the status to its decision; every other one fails with
\* AlreadyResolved; a status that has left PENDING never changes again.
C2_ResolveExactlyOnce ==
  /\ [](\A a \in 1..Len(approvals) :
          LET k == CallsOn(a)
              won == {i \in k : calls[i].result = "OK"}
          IN /\ k = {} => approvals[a].status = "PENDING"
             /\ k # {} =>
                  /\ Cardinality(won) = 1
                  /\ \A i \in won : /\ \A j \in k : i <= j
                                    /\ approvals[a].status = calls[i].decision
                  /\ \A i \in k \ won : calls[i].result = "AlreadyResolved")
  /\ [][\A a \in 1..Len(approvals) :
          approvals[a].status # "PENDING" =>
            approvals'[a].status = approvals[a].status]_vars

\* C2 witness: one approval was resolved twice, with different decisions.
C2_Witness ==
  \E a \in 1..Len(approvals) : \E i, j \in CallsOn(a) :
     /\ i < j
     /\ calls[i].decision # calls[j].decision
     /\ calls[j].result = "AlreadyResolved"

\* C3: the mutation runs at most once per approval_id; an execute for an
\* approval_id that is already completed changes neither the orders nor the
\* record, and hands the recorded result to the conversation.
C3_ExecuteIdempotent ==
  /\ [](\A a \in DOMAIN executions : Cardinality(MutationsOf(a)) = 1)
  /\ [](\A i \in 1..Len(mutations) : mutations[i].approval_id \in DOMAIN executions)
  /\ [][\A c \in Convs :
          LET a == state[c].trigger.approval_id IN
            (state[c].node = "EXECUTE_ACTION" /\ a \in DOMAIN executions) =>
              /\ orders' = orders
              /\ mutations' = mutations
              /\ executions' = executions
              /\ state'[c] # state[c] =>
                    state'[c].execution_result = executions[a]]_vars

\* C3 witness: an execution was cut off after the mutation and then replayed
\* to its end.
C3_Witness ==
  \E c \in Convs :
     /\ replays > 0
     /\ state[c].node = "FORMAT_RESPONSE"
     /\ state[c].trigger.kind = "APPROVED"
     /\ state[c].execution_result.approval_id = state[c].trigger.approval_id

\* The reasoning step asked for data that the state does not hold.
DataRequested(s) ==
  \/ s.next_step = "FETCH_ORDER" /\ s.order_data = NoOrder
  \/ s.next_step = "FETCH_POLICY" /\ s.policy_context = NoPolicy

\* C4: iteration_count never exceeds max_iterations, and a turn that reached
\* the bound is formatted with next_step forced away from a fetch request.
C4_IterationBound ==
  \A c \in Convs :
     /\ state[c].iteration_count <= max_iterations
     /\ (state[c].node \in {"FORMAT_RESPONSE", "END"}
         /\ state[c].iteration_count >= max_iterations)
          => state[c].next_step \notin {"FETCH_ORDER", "FETCH_POLICY"}

C6_ResponseNonEmpty ==
  \A c \in Convs :
     state[c].node = "END" =>
       /\ state[c].final_response \notin {NULL, ""}
       /\ state[c].reply.response = state[c].final_response

\* C6 witness: a turn has ended with the fallback in place of a missing answer.
C6_Witness ==
  \E c \in Convs :
     /\ state[c].node = "END"
     /\ state[c].final_response = FallbackAnswer

\* The request that the step from this state to the next one handled, if the
\* step handled an approval submission.
Handled == Len(calls') = Len(calls) + 1

\* C7: a resolution naming an unknown approval_id, an already resolved one, or
\* an approval that its conversation is not awaiting fails and changes neither
\* a ConversationState nor an ApprovalRequest.
C7_InvalidResolveNoChange ==
  [][Handled =>
       LET k == calls'[Len(calls')]
           a == k.approval_id
       IN (\/ ~Known(a)
           \/ approvals[a].status # "PENDING"
           \/ ~trigger_valid(state[approvals[a].conversation_id], a))
          => /\ ~k.resumed
             /\ state' = state
             /\ approvals' = approvals]_vars

\* C8: a turn is not formatted while the decision asks for data that is
\* missing and the iteration bound is not reached: the loop rule sends it
\* back to the fetch node.
C8_LoopBack ==
  \A c \in Convs :
     (state[c].node = "FORMAT_RESPONSE" /\ state[c].trigger.kind = "NewMessage")
       => should_loop(state[c]) = "FORMAT_RESPONSE"

\* An execution_result is recorded for the decision the conversation holds.
ResultRecorded(s) ==
  /\ s.execution_result # NoResult
  /\ s.execution_result.approval_id = s.trigger.approval_id

C10_PendingApprovalId ==
  \A c \in Convs :
     LET s == state[c] IN
       /\ s.node = "AWAIT_APPROVAL" =>
            /\ s.reply.requires_approval
            /\ s.reply.approval_id # 0
            /\ s.reply.approval_id = s.pending_approval_id
       /\ s.pending_approval_id # 0 =>
            /\ Known(s.pending_approval_id)
            /\ approvals[s.pending_approval_id].conversation_id = c
            /\ approvals[s.pending_approval_id].status = "PENDING"
       /\ s.pending_approval_id = 0 => s.node # "AWAIT_APPROVAL"

\* The executor never ran, and is not about to run, for a rejected approval.
NeverExecuted(a) ==
  /\ MutationsOf(a) = {}
  /\ a \notin DOMAIN executions
  /\ \A c \in Convs :
        state[c].node = "EXECUTE_ACTION" => state[c].trigger.approval_id # a

\* The step resolved a PENDING approval as REJECTED.
RejectedNow(a) ==
  /\ Handled
  /\ calls'[Len(calls')].approval_id = a
  /\ calls'[Len(calls')].decision = "REJECTED"
  /\ calls'[Len(calls')].result = "OK"

\* What the rejection does to the conversation, and what follows from it.
RejectionHandled(c) ==
  /\ state'[c].requested_action = "NONE"
  /\ state'[c].final_response = RejectionNotice
  /\ state'[c].node = "FORMAT_RESPONSE"

InProgress(s) ==
  s.node \in {"CLASSIFY_INTENT", "FETCH_ORDER", "FETCH_POLICY", "REASON",
              "VALIDATE_OUTPUT", "EXECUTE_ACTION", "FORMAT_RESPONSE"}

ValidProposal(d) == d.action \in WriteActions /\ d.order_id # NoOrderId

\* C13: every ApprovalRequest has a write action and an order id; a decision
\* with an unknown action, or with an action and no order id, leaves the
\* guardrails with the action NONE, at FORMAT_RESPONSE, and creates no
\* approval.
C13_ApprovalsWellFormed ==
  /\ [](\A a \in 1..Len(approvals) :
          /\ approvals[a].action \in WriteActions
          /\ approvals[a].order_id # NoOrderId)
  /\ [][\A c \in Convs :
          (state[c].node = "VALIDATE_OUTPUT" /\ state'[c] # state[c]
           /\ ~ValidProposal(state[c].agent_decision))
            => /\ state'[c].node = "FORMAT_RESPONSE"
               /\ state'[c].requested_action = "NONE"
               /\ state'[c].agent_decision.action = "NONE"
               /\ state'[c].pending_approval_id = state[c].pending_approval_id
               /\ approvals' = approvals]_vars

\* C13 witness: the decision named an action outside the enum for a stored
\* order, and the turn is about to be formatted with the action NONE.
C13_Witness ==
  \E c \in Convs :
     /\ state[c].node = "FORMAT_RESPONSE"
     /\ state[c].trigger.kind = "NewMessage"
     /\ state[c].agent_decision = Doc("answer", "NONE", Ord1, "NONE")
     /\ approvals = << >>

\* The conversation has moved from the node to one of the given nodes.
MovesTo(c, from, to) ==
  (state[c].node = from /\ state'[c] # state[c]) => state'[c].node \in to

\* C14: whatever the lookup, the retrieval and the reasoning call return, an
\* advance in progress always has a next node to run; FETCH_ORDER goes on to
\* FETCH_POLICY or REASON with order_data absent or the stored order,
\* FETCH_POLICY to REASON, REASON to VALIDATE_OUTPUT, and VALIDATE_OUTPUT to
\* FORMAT_RESPONSE or AWAIT_APPROVAL.
C14_FailureNeverAborts ==
  /\ [](\A c \in Convs : InProgress(state[c]) => ENABLED Step(c))
  /\ [][\A c \in Convs :
          /\ MovesTo(c, "FETCH_ORDER", {"FETCH_POLICY", "REASON"})
          /\ (state[c].node = "FETCH_ORDER" /\ state'[c] # state[c])
               => \/ state'[c].order_data = NoOrder
                  \/ state'[c].order_data.order_id \in DOMAIN orders
          /\ MovesTo(c, "FETCH_POLICY", {"REASON"})
          /\ MovesTo(c, "REASON", {"VALIDATE_OUTPUT"})
          /\ MovesTo(c, "VALIDATE_OUTPUT", {"FORMAT_RESPONSE", "AWAIT_APPROVAL"})
          /\ MovesTo(c, "FORMAT_RESPONSE", {"END"})]_vars

\* C14 witness: a turn has ended with the fallback answer after the lookup of
\* a stored order, the policy retrieval and the reasoning call all failed.
C14_Witness ==
  \E c \in Convs :
     /\ state[c].node = "END"
     /\ ExtractOrderId(state[c].user_message.words) \in DOMAIN orders
     /\ state[c].user_message.policy
     /\ state[c].order_data = NoOrder
     /\ state[c].policy_context = NoPolicy
     /\ state[c].agent_decision = normalize_llm_response_dict(NoDecision)
     /\ state[c].final_response = FallbackAnswer

\* C15: a failed execution is recorded as ExecutionFailed for its
\* approval_id and handed to the conversation, the turn ends with the failure
\* notice as its response, the mutation ran once and never again for that
\* approval_id, and the ended conversation accepts every further message.
C15_ExecutionFailedSurfaced ==
  /\ [](\A a \in DOMAIN executions :
          executions[a].outcome = "ExecutionFailed"
            => Cardinality(MutationsOf(a)) = 1)
  /\ [](\A c \in Convs :
          (state[c].node = "END" /\ turns < MaxTurns)
            => \A m \in Messages : ENABLED NewMessage(c, m))
  /\ [][\A c \in Convs :
          LET a == state[c].trigger.approval_id IN
            /\ (state[c].node = "EXECUTE_ACTION" /\ state'[c] # state[c]
                 /\ executions'[a].outcome = "ExecutionFailed")
                  => /\ state'[c].execution_result = executions'[a]
                     /\ state'[c].node = "FORMAT_RESPONSE"
            /\ (state[c].node = "FORMAT_RESPONSE" /\ state'[c] # state[c]
                 /\ state[c].trigger.kind = "APPROVED"
                 /\ state[c].execution_result.outcome = "ExecutionFailed")
                  => /\ state'[c].node = "END"
                     /\ state'[c].final_response = FailedNotice
                     /\ state'[c].reply.response = FailedNotice
            /\ \A f \in DOMAIN executions :
                  executions[f].outcome = "ExecutionFailed"
                    => /\ executions'[f] = executions[f]
                       /\ \A i \in 1..Len(mutations') :
                             mutations'[i].approval_id = f => i \in MutationsOf(f)]_vars

\* C15 witness: the execution of an approved action failed, the turn ended
\* with the failure notice, and the conversation has taken a further message.
C15_Witness ==
  \E c \in Convs :
     /\ state[c].node = "CLASSIFY_INTENT"
     /\ state[c].final_response = FailedNotice
     /\ state[c].execution_result.outcome = "ExecutionFailed"
     /\ Cardinality(MutationsOf(state[c].execution_result.approval_id)) = 1

\* C16: a NewMessage starts its turn at CLASSIFY_INTENT with iteration_count
\* 0 and the message, keeps order_data and policy_context if the message
\* names the order that is loaded and clears both otherwise; REASON never
\* sees order_data of an order that the current message does not name.
C16_NewMessageResets ==
  /\ [][\A c \in Convs :
          (~InProgress(state[c]) /\ state'[c].node = "CLASSIFY_INTENT") =>
            LET s == state[c]
                t == state'[c]
                same == /\ s.order_data # NoOrder
                        /\ ExtractOrderId(t.user_message.words) = s.order_data.order_id
            IN /\ t.iteration_count = 0
               /\ t.user_message \in Messages
               /\ t.order_data = IF same THEN s.order_data ELSE NoOrder
               /\ t.policy_context = IF same THEN s.policy_context ELSE NoPolicy]_vars
  /\ [](\A c \in Convs :
          (state[c].node = "REASON" /\ state[c].order_data # NoOrder)
            => state[c].order_data.order_id
                 = ExtractOrderId(state[c].user_message.words))

\* C16 witness: the second message names the order that the first turn
\* loaded, and the turn starts with that order_data.
C16_Witness ==
  \E c \in Convs :
     /\ turns = 2
     /\ state[c].node = "CLASSIFY_INTENT"
     /\ state[c].iteration_count = 0
     /\ state[c].order_data.order_id = Ord1

\* An identifier in the format of the order store: the prefix and digits.
Canonical(id) ==
  /\ Len(id) >= 2
  /\ Head(id) = "ORD-"
  /\ \A i \in 2..Len(id) : id[i] \in {"0", "1", "2", "3", "4", "5", "6", "7", "8", "9"}

\* C17: the identifier that FETCH_ORDER passed to the lookup is in the
\* canonical format, without punctuation, and the bare, the #-prefixed and
\* the canonical spelling of an order give the same lookup key.
C17_OrderIdNormalized ==
  \A c \in Convs :
     state[c].order_id # NoOrderId =>
       /\ Canonical(state[c].order_id)
       /\ ExtractOrderId(<< <<"order">>, <<"1">> >>) = Ord1
       /\ ExtractOrderId(<< <<"order">>, <<"#", "1">> >>) = Ord1
       /\ ExtractOrderId(<< <<"order">>, Ord1 >>) = Ord1

\* The step handled the answer to a chat request.
ChatAnswered == chatMutation.status = "pending" /\ chatMutation'.status = "success"

\* C18: when a chat response has been handled, pendingApproval carries the
\* response's approval_id, and the modal is shown, exactly if
\* requires_approval is true and approval_id is not null; otherwise
\* pendingApproval is null, whatever it was before.
C18_PendingApprovalFromResponse ==
  [][ChatAnswered =>
       LET response == chatMutation'.data
           required == response.requires_approval /\ response.approval_id # NULL
       IN /\ required => /\ pendingApproval'.approvalId = response.approval_id
                         /\ ModalShown'
          /\ ~required => /\ pendingApproval' = NoPending
                          /\ ~ModalShown']_vars

\* C18 witness: while the decision on a pending approval was being submitted,
\* the response to a further message required no approval, and
\* pendingApproval is null.
C18_Witness ==
  /\ isApproving
  /\ chatMutation.status = "success"
  /\ ~chatMutation.data.requires_approval
  /\ chatMutation.data.approval_id # NULL
  /\ pendingApproval = NoPending

\* The responses appended for the submission with this number.
AppendedFor(id) == {i \in 1..Len(appended) : appended[i] = id}

\* The effect has run for the approvalResponse rendered last.
EffectDone == effectDeps = rendered.approvalResponse

C20_FailedSubmissionNotSuccess ==
  /\ [](\A i \in 1..Len(appended) : submissions[appended[i]].outcome = "success")
  /\ [](approvalMutation.status = "error" => approvalMutation.data = NoData)
  /\ [][(\/ /\ approvalMutation'.status = "error"
             /\ approvalMutation' # approvalMutation
          \/ /\ approvalMutation'.status \in {"pending", "error"}
             /\ effectDeps' # effectDeps)
          => /\ messages' = messages
             /\ appended' = appended
             /\ pendingApproval' = pendingApproval]_vars

\* C20 witness: after a first submission succeeded and was handled, the
\* submission for a second approval failed, and its modal is still open.
C20_Witness ==
  /\ approvalMutation.status = "error"
  /\ EffectDone
  /\ appended = <<1>>
  /\ Len(submissions) = 2
  /\ pendingApproval.approvalId = submissions[2].approvalId

\* C21: whenever a fetch of the history completes, the message list is the
\* fetched history: its items with content, in order, with the role user or
\* assistant, and no message that was appended locally.
C21_HistoryReplacesMessages ==
  [][(historyFetching /\ ~historyFetching') =>
       messages' = historyMessages(historyData')]_vars

\* C22: what getOrCreateConversationId returned last is the id held in
\* localStorage, and a further call returns the same id without generating
\* one; the call after setConversationId(x) returns x; the call after
\* clearConversationId returns an id that was not generated before and
\* stores it.
C22_GetOrCreateLaw ==
  /\ [](lastCall.op = "get" =>
          /\ lastCall.id # NoId
          /\ lastCall.id = localStorage
          /\ getOrCreateConversationId.id = lastCall.id
          /\ ~getOrCreateConversationId.created)
  /\ [][/\ (lastCall.op = "set" /\ lastCall'.op = "get") =>
              (lastCall'.id = lastCall.id /\ generated' = generated)
        /\ (lastCall.op = "clear" /\ lastCall'.op = "get") =>
              /\ lastCall'.id > generated
              /\ generated' = lastCall'.id
              /\ localStorage' = lastCall'.id]_vars

C22_Witness ==
  /\ lastCall = [op |-> "get", id |-> 2]
  /\ generated = 2
  /\ localStorage = 2

\* The step handled the failure of the chat request with number k.
ChatFailed(k) == chatInFlight(k) /\ chatRequests'[k].outcome = "error"

\* C23: the failure of a chat send appends the one error message to the
\* message list and changes nothing else in it, leaves pendingApproval as it
\* is and starts no fetch of the history; when the failed send was the last
\* one, the screen no longer shows a send as pending and the next submit of
\* a message is accepted.
C23_FailedSendAppendsError ==
  /\ [][\A k \in 1..Len(chatRequests) : ChatFailed(k) =>
          /\ messages' = Append(messages, ErrorMessage)
          /\ pendingApproval' = pendingApproval
          /\ historyFetching' = historyFetching
          /\ historyData' = historyData
          /\ k = Len(chatRequests) =>
               (chatMutation'.status = "error" /\ ~rendered'.isPending)]_vars
  /\ []((/\ chatMutation.status = "error"
         /\ Truthy(trim(draft))
         /\ sends < MaxSends
         /\ ~effectScheduled) => ENABLED handleSubmit)

\* C23 witness: a send failed while an approval was pending; the error
\* message is the last of the list, the modal is still open, no fetch is
\* under way, and the next message is being typed.
C23_Witness ==
  /\ chatMutation.status = "error"
  /\ ModalShown
  /\ messages # << >>
  /\ messages[Len(messages)] = ErrorMessage
  /\ ~historyFetching
  /\ draft = "hi"

\* C24: when the delete of a conversation has succeeded, a new conversation
\* is started (new stored id, page reloaded) if and only if the deleted
\* conversation is the one shown; the delete of any other conversation
\* leaves the current id and the stored id as they are.
C24_DeleteOtherKeepsCurrent ==
  [][deleted' # deleted =>
       /\ (localStorage' # localStorage \/ ~mounted') <=> deleting = conversationId
       /\ deleting # conversationId =>
            UNCHANGED <<localStorage, conversationId>>]_vars

\* C25: at most one chat request is in flight at any time, and no request
\* carries a blank message.
C25_OneChatRequestInFlight ==
  /\ Cardinality({k \in 1..Len(chatRequests) : chatInFlight(k)}) <= 1
  /\ \A k \in 1..Len(chatRequests) : Truthy(trim(chatRequests[k].message))

\* C26: at most one approval submission is in flight at any time, so no
\* approval has an APPROVED and a REJECTED submission outstanding together.
C26_OneSubmissionInFlight ==
  /\ Cardinality({k \in 1..Len(submissions) : submissionInFlight(k)}) <= 1
  /\ \A j, k \in 1..Len(submissions) :
       (/\ submissionInFlight(j) /\ submissionInFlight(k)
        /\ submissions[j].approvalId = submissions[k].approvalId)
         => submissions[j].status = submissions[k].status

\* C27: every approval submission carries an approval id that an earlier
\* chat response with requires_approval = true delivered, and the decision
\* of the click; a submission is sent only while pendingApproval is not
\* null, for the approval it holds; and pendingApproval becomes an approval
\* only in the step that handles such a chat response.
C27_SubmissionFromChatResponse ==
  /\ [](\A k \in 1..Len(submissions) :
          /\ Truthy(submissions[k].approvalId)
          /\ submissions[k].approvalId \in offered
          /\ submissions[k].status \in Decisions)
  /\ [](ModalShown => (Truthy(pendingApproval.approvalId)
                       /\ pendingApproval.approvalId \in offered))
  /\ [][Len(submissions') > Len(submissions) =>
          LET sent == submissions'[Len(submissions')] IN
            /\ ModalShown
            /\ sent.approvalId = pendingApproval.approvalId
            /\ approvalMutation'.variables =
                 [approvalId |-> sent.approvalId, status |-> sent.status]
            /\ pendingApproval' = pendingApproval]_vars
  /\ [][(pendingApproval' # pendingApproval /\ ModalShown') =>
          \E k \in 1..Len(chatRequests) :
            /\ chatInFlight(k)
            /\ chatRequests'[k].outcome = "success"
            /\ pendingApproval'.approvalId \in offered']_vars

\* C27 witness: two approvals were offered by chat responses and a decision
\* was submitted for each, the second one a rejection.
C27_Witness ==
  /\ Len(submissions) = 2
  /\ submissions[1].approvalId = "a1"
  /\ submissions[2] = [approvalId |-> "a2", status |-> "REJECTED",
                       outcome |-> "pending"]
  /\ offered = {"a1", "a2"}

\* C28: while an approval submission is in flight, no step clears
\* pendingApproval by Escape, the backdrop or the close button.
C28_NoDismissalInFlight ==
  [][(\E k \in 1..Len(submissions) : submissionInFlight(k))
       => ~clearPendingApproval]_vars

\* C29: a non-null conversationId of the hook is the id stored in
\* localStorage, and once the hook has run the storage is never without an
\* id, whatever clearConversation, switchConversation and
\* createNewConversation were called.
C29_HookIdIsStoredId ==
  /\ conversationId # NoId => conversationId = localStorage
  /\ lastCall.op # "none" => localStorage # NoId

C29_Witness ==
  /\ mounted
  /\ conversationId = 2
  /\ localStorage = 2
  /\ lastCall.op = "set"

\* The index of the last piece of the run of pieces from S that follows
\* index i in the text; i itself when no such piece follows.
RunEnd(text, i, S) ==
  CHOOSE e \in i..Len(text) :
    /\ \A m \in (i + 1)..e : text[m] \in S
    /\ e = Len(text) \/ text[e + 1] \notin S

\* The token that follows the word "order" at index i: after at least one
\* whitespace and an optional "#", the letters, digits and hyphens up to the
\* next other character; << >> when there is none.
TokenAfter(text, i) ==
  LET j == RunEnd(text, i, {" "})
      h == IF j < Len(text) /\ text[j + 1] = "#" THEN j + 1 ELSE j
      e == RunEnd(text, h, Alnum)
  IN IF j > i /\ e > h THEN SubSeq(text, h + 1, e) ELSE << >>

\* The places of the text where "order" is followed by a token.
OrderPlaces(text) ==
  {i \in 1..Len(text) : text[i] = "order" /\ TokenAfter(text, i) # << >>}

\* C30: a pending approval built from a chat response never has the action
\* NONE: its action is REFUND_ORDER exactly if the text contains "refund",
\* in any case, and CANCEL_ORDER otherwise; its orderId is the token that
\* follows the first "order" that has one, and "Unknown" when the text has
\* no such token.
C30_PendingApprovalFields ==
  ModalShown =>
    LET text == pendingApproval.message
        places == OrderPlaces(text)
    IN /\ pendingApproval.action # "NONE"
       /\ pendingApproval.action \in {"CANCEL_ORDER", "REFUND_ORDER"}
       /\ pendingApproval.action = "REFUND_ORDER"
            <=> (\E i \in 1..Len(text) : text[i] = "refund")
       /\ places = {} => pendingApproval.orderId = Unknown
       /\ places # {} =>
            pendingApproval.orderId =
              TokenAfter(text, CHOOSE i \in places : \A o \in places : i <= o)

\* C30 witness: the text "order refund" made an approval pending whose
\* action is REFUND_ORDER and whose orderId is the token "refund".
C30_Witness ==
  /\ ModalShown
  /\ pendingApproval.message = <<"order", " ", "refund">>
  /\ pendingApproval.action = "REFUND_ORDER"
  /\ pendingApproval.orderId = <<"refund">>

====
